---- MODULE Spec2Model ----
(***************************************************************************)
(* orange3-datasets: the World Bank Data wrappers of                       *)
(* orangecontrib/datasets/api_wrapper.py (the packaged module) and of      *)
(* orangecontrib/wbd/api_wrapper.py (its older copy).                      *)
(*                                                                         *)
(* Two specifications share the variables:                                 *)
(*   SpecDate  calls of _get_iso_date on date strings;                     *)
(*   Spec      calls of as_np_array / as_orange_table on a dataset whose   *)
(*             as_list() returns a list-of-lists.                          *)
(***************************************************************************)
EXTENDS Integers, Sequences, FiniteSets, TLC

VARIABLES
    module,     \* "datasets" | "wbd": which api_wrapper.py is running
    today,      \* datetime.date.today(), <<y, m, d>>
    date_str,   \* the argument of _get_iso_date, a sequence of characters
    iso,        \* what the last _get_iso_date call did
    cls,        \* "Indicator" | "Climate": the dataset class
    raw,        \* the list-of-lists self.as_list(...) returns, per mode
    flexAny,    \* numpy build: ndarray.any() on a string-dtype array
    noneFirst,  \* interpreter: whether None precedes "" when a set is iterated
    work,       \* the working numpy array of the last call, as the call left it
    result,     \* the last call and what it returned or raised
    asked       \* the keyword arguments of the last as_orange_table call, the
                \* builder it ran and what the builder gave to as_np_array

dateVars  == <<module, today, date_str, iso>>
tableVars == <<cls, raw, flexAny, noneFirst, work, result, asked>>
vars      == <<module, today, date_str, iso, cls, raw, flexAny, noneFirst,
               work, result, asked>>

(***************************************************************************)
(* Bounds                                                                  *)
(***************************************************************************)
\* longest exhaustively enumerated date string
MaxLen == 4
\* most data rows of a dataset
MaxRows == 2
\* most indicator / value columns of a dataset
MaxInd == 1

(***************************************************************************)
(* Python text: characters, int(), str.split, str.strip                    *)
(***************************************************************************)
DigitChars == <<"0", "1", "2", "3", "4", "5", "6", "7", "8", "9">>

IsDigit(c) == \E i \in 1..10 : DigitChars[i] = c

DigitVal(c) == (CHOOSE i \in 1..10 : DigitChars[i] = c) - 1

Contains(s, c) == \E i \in 1..Len(s) : s[i] = c

\* str.split(c): the pieces between the occurrences of c
RECURSIVE Split(_, _)
Split(s, c) ==
    IF ~Contains(s, c) THEN <<s>>
    ELSE LET i == CHOOSE j \in 1..Len(s) :
                      s[j] = c /\ \A k \in 1..(j - 1) : s[k] # c
         IN  <<SubSeq(s, 1, i - 1)>> \o Split(SubSeq(s, i + 1, Len(s)), c)

\* int() strips surrounding whitespace
RECURSIVE Strip(_)
Strip(s) ==
    IF Len(s) > 0 /\ s[1] = " " THEN Strip(Tail(s))
    ELSE IF Len(s) > 0 /\ s[Len(s)] = " " THEN Strip(SubSeq(s, 1, Len(s) - 1))
    ELSE s

Unsigned(s) == IF Len(s) > 0 /\ s[1] \in {"+", "-"} THEN Tail(s) ELSE s

\* the strings int() accepts: [ws] [sign] digit (["_"] digit)* [ws]
IsIntLiteral(s) ==
    LET u == Unsigned(Strip(s))
    IN  /\ Len(u) > 0
        /\ IsDigit(u[1])
        /\ IsDigit(u[Len(u)])
        /\ \A i \in 1..Len(u) : IsDigit(u[i]) \/ u[i] = "_"
        /\ \A i \in 1..(Len(u) - 1) : ~(u[i] = "_" /\ u[i + 1] = "_")

\* A Python int as the C-int conversion of datetime.date sees it: sign, magnitude
\* (exact while over = 0) and over = 1 for a magnitude of exactly CIntMax + 1,
\* over = 2 for anything larger.
CIntMax == 2147483647

PyInt(neg, mag, over) == [neg |-> neg, mag |-> mag, over |-> over]

Small(n) == PyInt(n < 0, IF n < 0 THEN 0 - n ELSE n, 0)

RECURSIVE Magnitude(_)
Magnitude(u) ==
    IF Len(u) = 0 THEN <<0, 0>>
    ELSE LET p == Magnitude(SubSeq(u, 1, Len(u) - 1))
             c == u[Len(u)]
         IN  IF c = "_" THEN p
             ELSE IF p[2] > 0 THEN <<CIntMax, 2>>
             ELSE IF p[1] > (CIntMax - DigitVal(c)) \div 10
             THEN <<CIntMax,
                    IF p[1] = CIntMax \div 10 /\ DigitVal(c) = (CIntMax % 10) + 1
                    THEN 1 ELSE 2>>
             ELSE <<(10 * p[1]) + DigitVal(c), 0>>

\* int(s) for a string int() accepts
IntValue(s) ==
    LET t == Strip(s)
        p == Magnitude(Unsigned(t))
    IN  PyInt(Len(t) > 0 /\ t[1] = "-" /\ p[1] > 0, p[1], p[2])

Value(p) == IF p.neg THEN 0 - p.mag ELSE p.mag

\* (int(quarter) * 3) - 2
QuarterMonth(q) ==
    IF q.over > 0 THEN PyInt(q.neg, CIntMax, 2)
    ELSE IF Value(q) - 1 > (CIntMax - 1) \div 3 THEN PyInt(FALSE, CIntMax, 2)
    ELSE IF Value(q) < 0 - ((CIntMax - 1) \div 3) THEN PyInt(TRUE, CIntMax, 2)
    ELSE IF Value(q) = 0 - ((CIntMax - 1) \div 3) THEN PyInt(TRUE, CIntMax, 1)
    ELSE Small((Value(q) * 3) - 2)

(***************************************************************************)
(* datetime.date                                                           *)
(***************************************************************************)
MINYEAR == 1
MAXYEAR == 9999

NoText == <<>>

DateObject(y, m, d) ==
    [kind |-> "date", y |-> y, m |-> m, d |-> d, text |-> NoText, exc |-> ""]

StrObject(t) ==
    [kind |-> "str", y |-> 0, m |-> 0, d |-> 0, text |-> t, exc |-> ""]

Raised(e) ==
    [kind |-> "raise", y |-> 0, m |-> 0, d |-> 0, text |-> NoText, exc |-> e]

NotCalled ==
    [kind |-> "none", y |-> 0, m |-> 0, d |-> 0, text |-> NoText, exc |-> ""]

\* an argument that fits a C int (-CIntMax - 1 .. CIntMax)
FitsCInt(p) == p.over = 0 \/ (p.over = 1 /\ p.neg)

\* datetime.date(y, m, 1): the date, or the exception it raises
NewDate(y, m) ==
    IF ~FitsCInt(y) \/ ~FitsCInt(m) THEN Raised("OverflowError")
    ELSE IF y.over > 0 \/ m.over > 0 THEN Raised("ValueError")
    ELSE IF \/ Value(y) < MINYEAR \/ Value(y) > MAXYEAR
            \/ Value(m) < 1 \/ Value(m) > 12
    THEN Raised("ValueError")
    ELSE DateObject(Value(y), Value(m), 1)

\* n written with at least w digits, zero padded
RECURSIVE Pad(_, _)
Pad(n, w) ==
    IF w <= 1 /\ n < 10 THEN <<DigitChars[n + 1]>>
    ELSE Pad(n \div 10, w - 1) \o <<DigitChars[(n % 10) + 1]>>

\* date.isoformat(): "yyyy-mm-dd"
IsoFormat(y, m, d) == Pad(y, 4) \o <<"-">> \o Pad(m, 2) \o <<"-">> \o Pad(d, 2)

(***************************************************************************)
(* IndicatorDataset._get_iso_date                                          *)
(***************************************************************************)
\* except ValueError: return datetime.date.today().isoformat()
TodayIso(t) == StrObject(IsoFormat(t[1], t[2], t[3]))

\* the try body's outcome before the except clause sees it
QuarterBranch(mod, s) ==
    LET parts == Split(s, "Q")
    IN  IF Len(parts) # 2 THEN Raised("ValueError")
        ELSE IF mod = "wbd" THEN Raised("AttributeError")
        ELSE IF ~IsIntLiteral(parts[1]) \/ ~IsIntLiteral(parts[2])
        THEN Raised("ValueError")
        ELSE NewDate(IntValue(parts[1]), QuarterMonth(IntValue(parts[2])))

MonthBranch(mod, s) ==
    LET parts == Split(s, "M")
    IN  IF Len(parts) # 2 THEN Raised("ValueError")
        ELSE IF mod = "wbd" THEN Raised("AttributeError")
        ELSE IF ~IsIntLiteral(parts[1]) \/ ~IsIntLiteral(parts[2])
        THEN Raised("ValueError")
        ELSE NewDate(IntValue(parts[1]), IntValue(parts[2]))

YearBranch(s) ==
    IF ~IsIntLiteral(s) THEN Raised("ValueError")
    ELSE LET dt == NewDate(IntValue(s), Small(1))
         IN  IF dt.kind = "date" THEN StrObject(IsoFormat(dt.y, dt.m, dt.d))
             ELSE dt

TryBody(mod, s) ==
    IF Contains(s, "Q") THEN QuarterBranch(mod, s)
    ELSE IF Contains(s, "M") THEN MonthBranch(mod, s)
    ELSE YearBranch(s)

_get_iso_date(mod, t, s) ==
    LET r == TryBody(mod, s)
    IN  IF r.kind = "raise" /\ r.exc = "ValueError" THEN TodayIso(t) ELSE r

(***************************************************************************)
(* SpecDate: _get_iso_date called on a date string                         *)
(***************************************************************************)
Alphabet == {"0", "1", "5", "Q", "M", "-"}

\* every string over Alphabet of at most MaxLen characters
ShortStrings == UNION {[1..n -> Alphabet] : n \in 0..MaxLen}

\* date strings of the World Bank API, well formed and not
Samples ==
    { <<"2", "0", "0", "5">>,
      <<"2", "0", "0", "2", "Q", "3">>,
      <<"2", "0", "0", "2", "Q", "4">>,
      <<"2", "0", "0", "2", "Q", "5">>,
      <<"1", "9", "9", "9", "M", "7">>,
      <<"1", "9", "9", "9", "M", "1", "2">>,
      <<"1", "9", "9", "9", "M", "1", "3">>,
      <<"9", "9", "9", "9">>,
      <<"1", "0", "0", "0", "0">>,
      <<"1", "9", "8", "8", "-", "2", "0", "0", "0">>,
      <<"L", "a", "s", "t", " ", "K", "n", "o", "w", "n", " ",
        "V", "a", "l", "u", "e">>,
      <<"2", "0", "0", "2", "Q", "3", "Q", "1">>,
      <<"2", "1", "4", "7", "4", "8", "3", "6", "4", "7">>,
      <<"2", "1", "4", "7", "4", "8", "3", "6", "4", "8">>,
      <<"9", "9", "9", "9", "9", "9", "9", "9", "9", "9">>,
      <<"2", "0", "0", "2", "Q", "7", "1", "5", "8", "2", "7", "8", "8", "4">> }

DateInputs == ShortStrings \cup Samples

Todays == {<<2026, 11, 6>>, <<2005, 1, 1>>}

Modules == {"datasets", "wbd"}

NoArray == [dtype |-> "none", rows |-> <<>>]

NoCall ==
    [op |-> "none", mode |-> "none", kind |-> "none", exc |-> "",
     metaVars |-> <<>>, attrNames |-> <<>>, X |-> <<>>, metas |-> <<>>,
     array |-> NoArray]

\* a call that reached no as_np_array
NoRequest == [kind |-> "none", args |-> {}]

NotAsked == [given |-> {}, builder |-> "none", kwargs |-> {}, request |-> NoRequest]

InitDate ==
    /\ module \in Modules
    /\ today \in Todays
    /\ date_str \in DateInputs
    /\ iso = NotCalled
    /\ cls = "none"
    /\ raw = <<>>
    /\ flexAny = "works"
    /\ noneFirst = TRUE
    /\ work = NoArray
    /\ result = NoCall
    /\ asked = NotAsked

\* IndicatorDataset._get_iso_date(date_str)
GetIsoDate ==
    /\ iso.kind = "none"
    /\ iso' = _get_iso_date(module, today, date_str)
    /\ UNCHANGED <<module, today, date_str>>
    /\ UNCHANGED tableVars

NextDate == GetIsoDate

SpecDate == InitDate /\ [][NextDate]_vars

(***************************************************************************)
(* Date strings the claims call valid                                      *)
(***************************************************************************)
AllDigits(s) == Len(s) > 0 /\ \A i \in 1..Len(s) : IsDigit(s[i])

Num(s) == Magnitude(s)[1]

\* digits only, naming a number in lo..hi
DigitsIn(s, lo, hi) ==
    AllDigits(s) /\ Magnitude(s)[2] = 0 /\ Num(s) >= lo /\ Num(s) <= hi

\* "yyyy": four digits, a year datetime accepts
ValidYear(s) == Len(s) = 4 /\ DigitsIn(s, MINYEAR, MAXYEAR)

Occurrences(s, c) == Cardinality({i \in 1..Len(s) : s[i] = c})

\* "yyyyQq", q in 1..4
ValidQuarter(s) ==
    /\ Occurrences(s, "Q") = 1
    /\ ValidYear(Split(s, "Q")[1])
    /\ Len(Split(s, "Q")[2]) = 1
    /\ DigitsIn(Split(s, "Q")[2], 1, 4)

\* "yyyyMm", m in 1..12
ValidMonth(s) ==
    /\ Occurrences(s, "M") = 1
    /\ Occurrences(s, "Q") = 0
    /\ ValidYear(Split(s, "M")[1])
    /\ Len(Split(s, "M")[2]) \in 1..2
    /\ DigitsIn(Split(s, "M")[2], 1, 12)

\* the same dates written with fewer or more digits ("5", "0002Q03")
ReadsAsDate(s) ==
    \/ DigitsIn(s, MINYEAR, MAXYEAR)
    \/ /\ Occurrences(s, "Q") = 1
       /\ DigitsIn(Split(s, "Q")[1], MINYEAR, MAXYEAR)
       /\ DigitsIn(Split(s, "Q")[2], 1, 4)
    \/ /\ Occurrences(s, "M") = 1
       /\ Occurrences(s, "Q") = 0
       /\ DigitsIn(Split(s, "M")[1], MINYEAR, MAXYEAR)
       /\ DigitsIn(Split(s, "M")[2], 1, 12)

SameShape(s, t) ==
    \/ ValidYear(s) /\ ValidYear(t)
    \/ ValidQuarter(s) /\ ValidQuarter(t)
    \/ ValidMonth(s) /\ ValidMonth(t)

ValidDateStr(s) == ValidYear(s) \/ ValidQuarter(s) \/ ValidMonth(s)

\* the first day of the period a valid date string names
FirstDay(s) ==
    IF ValidQuarter(s)
    THEN <<Num(Split(s, "Q")[1]), (3 * Num(Split(s, "Q")[2])) - 2, 1>>
    ELSE IF ValidMonth(s)
    THEN <<Num(Split(s, "M")[1]), Num(Split(s, "M")[2]), 1>>
    ELSE <<Num(s), 1, 1>>

\* a string of the form dddd-dd-dd
IsIsoText(t) ==
    /\ Len(t) = 10
    /\ t[5] = "-"
    /\ t[8] = "-"
    /\ \A i \in {1, 2, 3, 4, 6, 7, 9, 10} : IsDigit(t[i])

\* the calendar date a returned value stands for
DateOf(r) ==
    IF r.kind = "date" THEN <<r.y, r.m, r.d>>
    ELSE IF r.kind = "str" /\ IsIsoText(r.text)
    THEN <<Num(SubSeq(r.text, 1, 4)), Num(SubSeq(r.text, 6, 7)),
           Num(SubSeq(r.text, 9, 10))>>
    ELSE <<0, 0, 0>>

Called == iso.kind # "none"

(***************************************************************************)
(* C2: for each accepted shape of date string (year, year-quarter,         *)
(* year-month) _get_iso_date returns an ISO "yyyy-mm-dd" string, the same  *)
(* type whichever branch handled the input.                                *)
(***************************************************************************)
C2_ReturnsIsoString ==
    (Called /\ ValidDateStr(date_str)) =>
        (iso.kind = "str" /\ IsIsoText(iso.text))

\* what holds of the packaged module: only the year branch returns a string
C2_YearBranchIsoString ==
    (Called /\ ValidYear(date_str)) =>
        (iso.kind = "str" /\ IsIsoText(iso.text))

(***************************************************************************)
(* C3: on every string that is not a valid year, year-quarter or           *)
(* year-month date _get_iso_date returns today's date in ISO format and    *)
(* never raises.                                                           *)
(***************************************************************************)
C3_FallsBackToToday ==
    (Called /\ ~ReadsAsDate(date_str)) => iso = TodayIso(today)

\* what holds of the packaged module: the fallback, or an uncaught OverflowError
C3_DatasetsFallbackOrOverflow ==
    (Called /\ module = "datasets" /\ ~ReadsAsDate(date_str)) =>
        (iso = TodayIso(today) \/ iso = Raised("OverflowError"))

(***************************************************************************)
(* C7: a valid date string is mapped to the first day of its period:       *)
(* "yyyy" to January 1, "yyyyQq" to day 1 of month 3q-2, "yyyyMm" to day 1 *)
(* of month m; distinct inputs of one shape give distinct dates.           *)
(***************************************************************************)
C7_FirstDayOfPeriod ==
    (Called /\ ValidDateStr(date_str)) =>
        /\ DateOf(iso) = FirstDay(date_str)
        /\ \A t \in DateInputs :
               (SameShape(date_str, t) /\ t # date_str) =>
                   DateOf(_get_iso_date(module, today, t)) # DateOf(iso)

\* what holds of the packaged module
C7_DatasetsFirstDayOfPeriod ==
    (Called /\ module = "datasets" /\ ValidDateStr(date_str)) =>
        /\ DateOf(iso) = FirstDay(date_str)
        /\ \A t \in DateInputs :
               (SameShape(date_str, t) /\ t # date_str) =>
                   DateOf(_get_iso_date(module, today, t)) # DateOf(iso)

(***************************************************************************)
(* Cells of the list-of-lists and of the numpy array built from it.        *)
(* k: "none" (None), "str", "num" (a float), "date" (datetime.date),       *)
(* "ts" (a time.mktime timestamp), "int" (a category index), "nan".        *)
(* v: the value, written as text.                                          *)
(***************************************************************************)
NoneCell == [k |-> "none", v |-> ""]
Str(x) == [k |-> "str", v |-> x]
Numb(x) == [k |-> "num", v |-> x]
DateCell(x) == [k |-> "date", v |-> x]
NanCell == [k |-> "nan", v |-> "nan"]

\* bool(cell), as any(col) and "if date_" evaluate it
Truthy(c) ==
    CASE c.k = "none" -> FALSE
      [] c.k = "str" -> c.v # ""
      [] c.k = "num" -> c.v # "0.0"
      [] c.k = "int" -> c.v # "0"
      [] OTHER -> TRUE

Width(rows) == IF Len(rows) = 0 THEN 0 ELSE Len(rows[1])

\* np.array(list) keeps the objects when some cell is neither a string nor a
\* number, and otherwise finds the common dtype of strings and floats: a string
\* dtype, every number replaced by its text
IsObjectList(list) ==
    \E i \in 1..Len(list) : \E j \in 1..Len(list[i]) :
        list[i][j].k \in {"none", "date"}

ToStrCell(c) == IF c.k = "num" THEN Str(c.v) ELSE c

NpArray(list) ==
    IF IsObjectList(list) THEN [dtype |-> "object", rows |-> list]
    ELSE [dtype |-> "str",
          rows |-> [i \in 1..Len(list) |->
                       [j \in 1..Len(list[i]) |-> ToStrCell(list[i][j])]]]

\* filter_ = [ind for ind, col in enumerate(data[1:, :].T) if any(col)]
ColumnFilter(rows) ==
    {j \in 1..Width(rows) : \E i \in 2..Len(rows) : Truthy(rows[i][j])}

\* row[filter_]: the cells at the kept indexes, in index order
RECURSIVE Pick(_, _, _)
Pick(row, keep, j) ==
    IF j > Len(row) THEN <<>>
    ELSE (IF j \in keep THEN <<row[j]>> ELSE <<>>) \o Pick(row, keep, j + 1)

\* as_np_array of both dataset classes: data[:, filter_]
as_np_array(list) ==
    LET data == NpArray(list)
        keep == ColumnFilter(data.rows)
    IN  [dtype |-> data.dtype,
         rows |-> [i \in 1..Len(data.rows) |-> Pick(data.rows[i], keep, 1)]]

\* data[1:, lo:hi] and data[0, lo:hi] (1-based, hi inclusive, clipped)
Cut(row, lo, hi) ==
    IF lo > Len(row) THEN <<>>
    ELSE SubSeq(row, lo, IF hi > Len(row) THEN Len(row) ELSE hi)

DataRows(rows) == SubSeq(rows, 2, Len(rows))

Block(rows, lo, hi) ==
    [i \in 1..(Len(rows) - 1) |-> Cut(rows[i + 1], lo, hi)]

Names(row) == [j \in 1..Len(row) |-> row[j].v]

\* data.any()
AnyCell(a) ==
    \E i \in 1..Len(a.rows) : \E j \in 1..Len(a.rows[i]) : Truthy(a.rows[i][j])

(***************************************************************************)
(* What a call returns                                                     *)
(***************************************************************************)
ReturnNone ==
    [kind |-> "None", exc |-> "", metaVars |-> <<>>, attrNames |-> <<>>,
     X |-> <<>>, metas |-> <<>>, array |-> NoArray]

Raise(e) ==
    [kind |-> "raise", exc |-> e, metaVars |-> <<>>, attrNames |-> <<>>,
     X |-> <<>>, metas |-> <<>>, array |-> NoArray]

ReturnArray(a) ==
    [kind |-> "array", exc |-> "", metaVars |-> <<>>, attrNames |-> <<>>,
     X |-> <<>>, metas |-> <<>>, array |-> a]

\* Orange.data.Table(Domain(attributes, metas=meta_domains), X, metas=metas)
Table(metaVars, attrNames, X, metas) ==
    [kind |-> "table", exc |-> "", metaVars |-> metaVars,
     attrNames |-> attrNames, X |-> X, metas |-> metas, array |-> NoArray]

MetaVar(name, type, values) == [name |-> name, type |-> type, values |-> values]

\* a builder's outcome: what it returns and the array it worked on
Outcome(ret, data) == [ret |-> ret, data |-> data]

(***************************************************************************)
(* time series tables                                                      *)
(***************************************************************************)
\* time.mktime(date_.timetuple())
Mktime(c) == [k |-> "ts", v |-> c.v]

\* [time.mktime(date_.timetuple()) if date_ else None]
DateMeta(c) == IF Truthy(c) THEN <<Mktime(c)>> ELSE <<NoneCell>>

\* the comprehension taken over data[:, 0], header included
DateMetasWithHeader(rows) == [i \in 1..Len(rows) |-> DateMeta(rows[i][1])]

\* meta_columns = [[...] for date_ in data[1:, 0]]
DateMetas(rows) == [i \in 1..(Len(rows) - 1) |-> DateMeta(rows[i + 1][1])]

\* only a date has timetuple()
DateMetaRaises(rows) ==
    \E i \in 2..Len(rows) : Truthy(rows[i][1]) /\ rows[i][1].k # "date"

\* IndicatorDataset._time_series_table
IndicatorTimeSeriesTable(list, flex) ==
    LET data == as_np_array(list)
    IN  IF data.dtype = "str" /\ flex = "raises"
        THEN Outcome(Raise("TypeError"), data)
        ELSE IF ~AnyCell(data) THEN Outcome(ReturnNone, data)
        ELSE IF DateMetaRaises(data.rows)
        THEN Outcome(Raise("AttributeError"), data)
        ELSE Outcome(
                 Table(<<MetaVar("Date", "time", <<>>)>>,
                       Names(Cut(data.rows[1], 2, Width(data.rows))),
                       Block(data.rows, 2, Width(data.rows)),
                       DateMetas(data.rows)),
                 data)

(***************************************************************************)
(* ClimateDataset                                                          *)
(***************************************************************************)
\* countries.get_alpha3_map(): country code -> alpha-3 code
Alpha3Keys == {"SI", "BR"}

Alpha3Map == [c \in Alpha3Keys |-> IF c = "SI" THEN "SVN" ELSE "BRA"]

\* alpha3_map.get(cell, cell)
Alpha3Get(c) ==
    IF c.k = "str" /\ c.v \in Alpha3Keys THEN [k |-> "str", v |-> Alpha3Map[c.v]]
    ELSE c

\* alpha3_map.get(cell): the lookup without its default
Alpha3GetNoDefault(c) ==
    IF c.k = "str" /\ c.v \in Alpha3Keys THEN [k |-> "str", v |-> Alpha3Map[c.v]]
    ELSE NoneCell

\* the loop with row[0] = alpha3_map.get(row[0])
NormalizeCountryNoDefault(rows) ==
    [i \in 1..Len(rows) |->
        IF i = 1 THEN rows[i]
        ELSE [j \in 1..Len(rows[i]) |->
                 IF j = 1 THEN Alpha3GetNoDefault(rows[i][j]) ELSE rows[i][j]]]

\* for row in meta_columns: row[0] = alpha3_map.get(row[0], row[0]),
\* written through the view data[1:, :1] into data
NormalizeCountry(rows) ==
    [i \in 1..Len(rows) |->
        IF i = 1 THEN rows[i]
        ELSE [j \in 1..Len(rows[i]) |->
                 IF j = 1 THEN Alpha3Get(rows[i][j]) ELSE rows[i][j]]]

\* ClimateDataset._country_table
ClimateCountryTable(list) ==
    LET data == as_np_array(list)
        done == [dtype |-> data.dtype, rows |-> NormalizeCountry(data.rows)]
    IN  IF Len(data.rows) < 2 THEN Outcome(ReturnNone, data)
        ELSE IF Width(data.rows) = 0 THEN Outcome(Raise("IndexError"), data)
        ELSE Outcome(
                 Table([j \in 1..1 |->
                           MetaVar(data.rows[1][j].v, "string", <<>>)],
                       Names(Cut(data.rows[1], 2, Width(data.rows))),
                       Block(done.rows, 2, Width(data.rows)),
                       Block(done.rows, 1, 1)),
                 done)

\* for row in meta_columns: row[0] = alpha3_map.get(row[0], row[0]),
\* on the list of timestamps of ClimateDataset._time_series_table
NormalizeDates(metas) == [i \in 1..Len(metas) |-> <<Alpha3Get(metas[i][1])>>]

\* ClimateDataset._time_series_table
ClimateTimeSeriesTable(list) ==
    LET data == as_np_array(list)
    IN  IF Len(data.rows) < 2 THEN Outcome(ReturnNone, data)
        ELSE IF Width(data.rows) = 0 THEN Outcome(Raise("IndexError"), data)
        ELSE IF DateMetaRaises(data.rows)
        THEN Outcome(Raise("AttributeError"), data)
        ELSE Outcome(
                 Table([j \in 1..1 |->
                           MetaVar(data.rows[1][j].v, "time", <<>>)],
                       Names(Cut(data.rows[1], 2, Width(data.rows))),
                       Block(data.rows, 2, Width(data.rows)),
                       NormalizeDates(DateMetas(data.rows))),
                 data)

(***************************************************************************)
(* IndicatorDataset._country_table                                         *)
(***************************************************************************)
\* meta_columns = data[1:, :7]
MetaWidth == 7

\* the columns row[1], row[2], row[3], row[6] (counted from 1 here)
EncodedCols == <<2, 3, 4, 7>>

\* the columns row[3], row[4] of meta_columns[:, 1:] (counted from 1 here)
FloatCols == {5, 6}

\* def nonesorter(a): the sort key
nonesorter(a) == IF ~Truthy(a) THEN Str("") ELSE a

\* Python's order of the texts a dataset of the model can hold
TextOrder ==
    <<"", "0.0", "1.5", "14.5", "46.0", "ECA", "ECS", "IBD", "LMC", "NA">>

\* the texts float() accepts
NumTexts == {"0.0", "1.5", "14.5", "46.0", "nan"}

KeyRank(a) == CHOOSE i \in 1..Len(TextOrder) : TextOrder[i] = nonesorter(a).v

\* where set iteration puts a cell among cells of equal key
IterRank(a, nf) ==
    CASE a.k = "none" -> IF nf THEN 0 ELSE 2
      [] a.k = "str" -> 1
      [] OTHER -> 3

Before(a, b, nf) ==
    \/ KeyRank(a) < KeyRank(b)
    \/ KeyRank(a) = KeyRank(b) /\ IterRank(a, nf) < IterRank(b, nf)

\* comparing a str key with a float key raises TypeError
SortRaises(S) == \E a \in S : \E b \in S : nonesorter(a).k # nonesorter(b).k

\* sorted(set(column), key=nonesorter)
SortedSet(S, nf) ==
    [i \in 1..Cardinality(S) |->
        CHOOSE c \in S : Cardinality({d \in S : Before(d, c, nf)}) = i - 1]

\* sorted(d.keys(), key=nonesorter): a stable sort of the dict's insertion order
StableSorted(seq) ==
    [i \in 1..Len(seq) |->
        seq[CHOOSE j \in 1..Len(seq) :
                Cardinality({k \in 1..Len(seq) :
                    \/ KeyRank(seq[k]) < KeyRank(seq[j])
                    \/ KeyRank(seq[k]) = KeyRank(seq[j]) /\ k < j}) = i - 1]]

ColumnSet(rows, j) == {rows[i][j] : i \in 1..Len(rows)}

\* {r: i for i, r in enumerate(sorted(set(meta_columns[:, j]), key=nonesorter))}
CategoryDict(rows, j, nf) == SortedSet(ColumnSet(rows, j), nf)

\* regions[row[1]]: the index the dict gives a value
Lookup(dict, c) == (CHOOSE i \in 1..Len(dict) : dict[i] = c) - 1

\* an int stored into the array: kept in an object array, its text in a string one
IndexCell(dtype, n) ==
    IF dtype = "object" THEN [k |-> "int", v |-> DigitChars[n + 1]]
    ELSE Str(DigitChars[n + 1])

\* for row in meta_columns: row[1] = regions[row[1]]; ... row[6] = ...
\* written through the view data[1:, :7] into data
EncodeRows(data, nf) ==
    LET meta == Block(data.rows, 1, MetaWidth)
    IN  [i \in 1..Len(data.rows) |->
            IF i = 1 THEN data.rows[i]
            ELSE [j \in 1..Len(data.rows[i]) |->
                     IF \E e \in 1..Len(EncodedCols) : EncodedCols[e] = j
                     THEN IndexCell(data.dtype,
                              Lookup(CategoryDict(meta, j, nf), data.rows[i][j]))
                     ELSE data.rows[i][j]]]

\* the first of lines 89-92 to fail: a missing column, or an unsortable one
RECURSIVE EncodeError(_, _)
EncodeError(meta, e) ==
    IF e > Len(EncodedCols) THEN ""
    ELSE IF Width(meta) < EncodedCols[e] THEN "IndexError"
    ELSE IF SortRaises(ColumnSet(meta, EncodedCols[e])) THEN "TypeError"
    ELSE EncodeError(meta, e + 1)

\* data_columns.astype(float), one cell
AsFloat(c) ==
    CASE c.k = "none" -> NanCell
      [] c.k = "str" -> IF c.v = "nan" THEN NanCell ELSE Numb(c.v)
      [] OTHER -> c

FloatRaises(c) == c.k = "str" /\ c.v \notin NumTexts

\* np.where(m == np.array(None), np.nan, m); np.where(m == '', np.nan, m)
MissingToNan(dtype, c) ==
    IF dtype = "object"
    THEN (IF c.k = "none" \/ (c.k = "str" /\ c.v = "") THEN NanCell ELSE c)
    ELSE (IF c.v = "" THEN Str("nan") ELSE c)

\* row[3] = float(row[3]) stored back into the array
FloatBack(dtype, c) == IF dtype = "object" THEN AsFloat(c) ELSE c

MetaDomains(meta, nf) ==
    <<MetaVar("Country", "string", <<>>),
      MetaVar("Region", "discrete", StableSorted(CategoryDict(meta, 2, nf))),
      MetaVar("Admin region", "discrete",
              StableSorted(CategoryDict(meta, 3, nf))),
      MetaVar("Income level", "discrete",
              StableSorted(CategoryDict(meta, 4, nf))),
      MetaVar("Longitude", "continuous", <<>>),
      MetaVar("Latitude", "continuous", <<>>),
      MetaVar("Lending type", "discrete",
              StableSorted(CategoryDict(meta, 7, nf)))>>

\* lines 127-134: the float conversions of the data and meta columns
FinalMetas(dtype, rows) ==
    [i \in 1..(Len(rows) - 1) |->
        [j \in 1..MetaWidth |->
            IF j \in FloatCols
            THEN FloatBack(dtype, MissingToNan(dtype, rows[i + 1][j]))
            ELSE MissingToNan(dtype, rows[i + 1][j])]]

FinalData(rows) ==
    [i \in 1..(Len(rows) - 1) |->
        [j \in 1..(Len(rows[i + 1]) - MetaWidth) |->
            AsFloat(rows[i + 1][j + MetaWidth])]]

ConversionRaises(dtype, rows) ==
    \E i \in 2..Len(rows) : \E j \in 1..Len(rows[i]) :
        \/ j > MetaWidth /\ FloatRaises(rows[i][j])
        \/ j \in FloatCols /\ FloatRaises(MissingToNan(dtype, rows[i][j]))

IndicatorCountryTable(list, flex, nf) ==
    LET data == as_np_array(list)
        meta == Block(data.rows, 1, MetaWidth)
        done == [dtype |-> data.dtype, rows |-> EncodeRows(data, nf)]
    IN  IF data.dtype = "str" /\ flex = "raises"
        THEN Outcome(Raise("TypeError"), data)
        ELSE IF ~AnyCell(data) THEN Outcome(ReturnNone, data)
        ELSE IF EncodeError(meta, 1) # ""
        THEN Outcome(Raise(EncodeError(meta, 1)), data)
        ELSE IF ConversionRaises(done.dtype, done.rows)
        THEN Outcome(Raise("ValueError"), done)
        ELSE Outcome(
                 Table(MetaDomains(meta, nf),
                       Names(Cut(data.rows[1], MetaWidth + 1, Width(data.rows))),
                       FinalData(done.rows),
                       FinalMetas(done.dtype, done.rows)),
                 done)

(***************************************************************************)
(* as_orange_table and as_np_array as the table builders call it           *)
(***************************************************************************)
\* lists[TRUE]: as_list for a time series; lists[FALSE]: as_list for countries
TimeSeriesTable(c, lists, flex) ==
    IF c = "Indicator" THEN IndicatorTimeSeriesTable(lists[TRUE], flex)
    ELSE ClimateTimeSeriesTable(lists[TRUE])

CountryTable(c, lists, flex, nf) ==
    IF c = "Indicator" THEN IndicatorCountryTable(lists[FALSE], flex, nf)
    ELSE ClimateCountryTable(lists[FALSE])

\* keyword arguments are a set of <<name, value>> pairs
KeywordNames(kw) == {p[1] : p \in kw}

\* columns=["country", "type"], use_dates=True
SeriesKeywords == {<<"columns", "country,type">>, <<"use_dates", "True">>}

\* self.as_np_array(**args)
Request(args) == [kind |-> "as_np_array", args |-> args]

\* f(a=1, **{"a": 2}): got multiple values for keyword argument
RepeatedKeyword == [kind |-> "TypeError", args |-> {}]

\* the call of as_np_array a time-series builder writes
TimeSeriesRequest(c, kw) ==
    IF c = "Indicator" THEN Request({<<"time_series", "True">>})
    ELSE IF KeywordNames(SeriesKeywords) \cap KeywordNames(kw) # {}
    THEN RepeatedKeyword
    ELSE Request(SeriesKeywords \cup kw)

\* the call of as_np_array a country builder writes
CountryRequest(c, kw) ==
    IF c = "Indicator" THEN Request({<<"add_metadata", "True">>})
    ELSE Request(kw)

\* a builder that ran: its name, the keywords it got, its as_np_array call and
\* what it returned
Built(name, kw, request, out) ==
    [builder |-> name, kwargs |-> kw, request |-> request,
     out |-> IF request.kind = "TypeError"
             THEN Outcome(Raise("TypeError"), NoArray) ELSE out]

_time_series_table(c, kw, lists, flex) ==
    Built("_time_series_table", kw, TimeSeriesRequest(c, kw),
          TimeSeriesTable(c, lists, flex))

_country_table(c, kw, lists, flex, nf) ==
    Built("_country_table", kw, CountryRequest(c, kw),
          CountryTable(c, lists, flex, nf))

\* a dispatch that forgets time_series
AlwaysCountryTable(c, ts, kw, lists, flex, nf) ==
    _country_table(c, kw, lists, flex, nf)

as_orange_table(c, ts, kw, lists, flex, nf) ==
    IF ts THEN _time_series_table(c, kw, lists, flex)
    ELSE _country_table(c, kw, lists, flex, nf)

\* an array that shares the list's storage: the call's writes reach the list
ListsAliased(lists, ts, data) == [lists EXCEPT ![ts] = data.rows]

\* np.array(self.as_list(...)) copies the list and data[:, filter_] copies the
\* array: what a call writes into its array does not reach the dataset's list
ListsAfterCall(lists, ts, data) == lists

Call(op, ts, ret) ==
    [op |-> op, mode |-> IF ts THEN "series" ELSE "country", kind |-> ret.kind,
     exc |-> ret.exc, metaVars |-> ret.metaVars, attrNames |-> ret.attrNames,
     X |-> ret.X, metas |-> ret.metas, array |-> ret.array]

(***************************************************************************)
(* Datasets: what as_list returns                                          *)
(***************************************************************************)
ColumnNames == <<"SP.POP.TOTL", "NY.GDP.MKTP.CD", "EN.URB.LCTY">>

CountryNames == <<"Slovenia", "Kenya", "Brazil", "World">>

\* the values of indicator column j: missing, zero, or a number in the first
\* column, missing or a number in the others
Values(j) ==
    IF j = 1 THEN {NoneCell, Numb("0.0"), Numb("1.5")}
    ELSE {NoneCell, Numb("1.5")}

\* Region, Admin region, Income level, Longitude, Latitude, Lending type
Full == <<Str("ECS"), Str("ECA"), Str("LMC"), Str("14.5"), Str("46.0"), Str("IBD")>>

\* a country without an admin region
NoAdmin == <<Str("ECS"), Str(""), Str("LMC"), Str("14.5"), Str("46.0"), Str("IBD")>>

\* an aggregate: no admin region, no coordinates, no lending type
Aggregate == <<Str("NA"), Str(""), Str("NA"), Str(""), Str(""), Str("")>>

\* a country the metadata does not know
Missing == <<NoneCell, NoneCell, NoneCell, NoneCell, NoneCell, NoneCell>>

\* the metadata the country of row i can have
Profiles(i) ==
    IF i % 2 = 1 THEN {Full, NoAdmin} ELSE {Full, Aggregate, Missing}

MetaNames ==
    <<"Country", "Region", "Admin region", "Income level", "Longitude",
      "Latitude", "Lending type">>

\* the date cell of row i of a time series: a date, or None
Dates(i) ==
    IF i % 2 = 1 THEN {DateCell("2001-01-01"), NoneCell}
    ELSE {DateCell("2002-01-01"), NoneCell}

\* the country code of row i: one the alpha-3 map holds, or an alpha-3 code
Codes(i) ==
    IF i % 2 = 1 THEN {Str("SI"), Str("SVN")} ELSE {Str("BR"), Str("SVN")}

StrRow(names) == [j \in 1..Len(names) |-> Str(names[j])]

Header(c, ts, nind) ==
    (IF ts THEN (IF c = "Indicator" THEN <<Str("Date")>> ELSE <<Str("date")>>)
     ELSE IF c = "Indicator" THEN StrRow(MetaNames)
     ELSE <<Str("country")>>)
    \o StrRow(SubSeq(ColumnNames, 1, nind))

\* the cells of a data row that come before its values
Leads(c, ts, i) ==
    IF ts THEN {<<d>> : d \in Dates(i)}
    ELSE IF c = "Indicator" THEN {<<Str(CountryNames[i])>> \o p : p \in Profiles(i)}
    ELSE {<<k>> : k \in Codes(i)}

\* the rows the dataset can hold at position i, with nind indicator values
Rows(c, ts, nind, i) ==
    {lead \o vals : lead \in Leads(c, ts, i),
                     vals \in {v \in [1..nind -> Values(1)] :
                                  \A j \in 1..nind : v[j] \in Values(j)}}

RECURSIVE ListsOf(_, _, _, _)
\* the lists of a header and n data rows
ListsOf(c, ts, nind, n) ==
    IF n = 0 THEN {<<Header(c, ts, nind)>>}
    ELSE {l \o <<r>> : l \in ListsOf(c, ts, nind, n - 1),
                       r \in Rows(c, ts, nind, n)}

Lists(c, ts) ==
    UNION {ListsOf(c, ts, nind, n) : nind \in 1..MaxInd, n \in 0..MaxRows}

\* the list of the other mode: one row, a value missing
SampleList(c, ts) ==
    <<Header(c, ts, 1),
      (CHOOSE l \in Leads(c, ts, 1) : \A j \in 1..Len(l) : Truthy(l[j]))
          \o <<NoneCell>>>>

HasCell(list, c) ==
    \E i \in 1..Len(list) : \E j \in 1..Len(list[i]) : list[i][j] = c

Init ==
    /\ module = "datasets"
    /\ today = <<2026, 11, 6>>
    /\ date_str = <<>>
    /\ iso = NotCalled
    /\ cls \in {"Indicator", "Climate"}
    /\ \E focus \in BOOLEAN :
          /\ raw \in {[ts \in BOOLEAN |->
                          IF ts = focus THEN l ELSE SampleList(cls, ts)] :
                      l \in Lists(cls, focus)}
          /\ flexAny \in IF cls = "Indicator" /\ ~IsObjectList(raw[focus])
                         THEN {"works", "raises"} ELSE {"works"}
          /\ noneFirst \in IF HasCell(raw[focus], NoneCell)
                              /\ HasCell(raw[focus], Str(""))
                           THEN BOOLEAN ELSE {TRUE}
    /\ work = NoArray
    /\ result = NoCall
    /\ asked = NotAsked

\* the keyword arguments a caller gives to ClimateDataset.as_orange_table
Kwargs == {{}, {<<"use_dates", "True">>}, {<<"columns", "type">>}}

\* IndicatorDataset.as_orange_table(self, time_series=False) takes none
KwargsOf(c) == IF c = "Climate" THEN Kwargs ELSE {{}}

\* as_np_array(time_series=True) / as_np_array(add_metadata=True) of
\* IndicatorDataset; as_np_array(**kwargs) of ClimateDataset
AsNpArray(ts) ==
    /\ work' = as_np_array(raw[ts])
    /\ result' = Call("as_np_array", ts, ReturnArray(work'))
    /\ raw' = ListsAfterCall(raw, ts, work')
    /\ asked' = NotAsked
    /\ UNCHANGED <<cls, flexAny, noneFirst>>
    /\ UNCHANGED dateVars

\* as_orange_table(time_series=ts, **kw)
AsOrangeTable(ts) ==
    /\ \E kw \in KwargsOf(cls) :
          \E b \in {as_orange_table(cls, ts, kw, raw, flexAny, noneFirst)} :
              /\ work' = b.out.data
              /\ result' = Call("as_orange_table", ts, b.out.ret)
              /\ raw' = IF b.request.kind = "TypeError" THEN raw
                        ELSE ListsAfterCall(raw, ts, b.out.data)
              /\ asked' = [given |-> kw, builder |-> b.builder,
                           kwargs |-> b.kwargs, request |-> b.request]
    /\ UNCHANGED <<cls, flexAny, noneFirst>>
    /\ UNCHANGED dateVars

Next == \E ts \in BOOLEAN : AsNpArray(ts) \/ AsOrangeTable(ts)

Spec == Init /\ [][Next]_vars

(***************************************************************************)
(* What the claims about the tables speak of                               *)
(***************************************************************************)
CalledNp == result.op = "as_np_array"

CalledTable(c, mode) ==
    cls = c /\ result.op = "as_orange_table" /\ result.mode = mode

\* the list the last call read
ListRead == raw[result.mode = "series"]

HasDataRows(list) == Len(list) >= 2

\* None or the empty string
EmptyCell(c) == c.k = "none" \/ (c.k = "str" /\ c.v = "")

\* the list holds an object that is neither a string nor a number
HoldsObject(list) ==
    \E i \in 1..Len(list) : \E j \in 1..Len(list[i]) :
        list[i][j].k \notin {"str", "num"}

\* None, the empty string, or a zero that numpy kept as a number
FalsyCell(list, c) ==
    EmptyCell(c) \/ (c.k = "num" /\ c.v = "0.0" /\ HoldsObject(list))

\* the members of a set of column indexes, ascending
Ascending(S) ==
    [p \in 1..Cardinality(S) |->
        CHOOSE j \in S : Cardinality({k \in S : k < j}) = p - 1]

\* the same value, as the list held it or as text
SameValue(a, b) == a.v = b.v /\ (a.k = b.k \/ (a.k = "str" /\ b.k = "num"))

\* arr holds exactly the columns keep of list, in their order, every row
KeepsColumns(list, arr, keep) ==
    /\ Len(arr.rows) = Len(list)
    /\ \A i \in 1..Len(list) :
          /\ Len(arr.rows[i]) = Cardinality(keep)
          /\ \A p \in 1..Cardinality(keep) :
                SameValue(arr.rows[i][p], list[i][Ascending(keep)[p]])

(***************************************************************************)
(* C1 as stated: as_np_array removes a column if and only if every one of  *)
(* its data-row entries is None or the empty string; the other columns are *)
(* kept, header included, in their order, and no row is added or removed.  *)
(***************************************************************************)
C1_DropsExactlyEmptyColumns ==
    CalledNp =>
        KeepsColumns(ListRead, result.array,
            {j \in 1..Width(ListRead) :
                \E i \in 2..Len(ListRead) : ~EmptyCell(ListRead[i][j])})

(***************************************************************************)
(* C1 amended: as_np_array removes a column if and only if every one of    *)
(* its data-row entries is falsy in the numpy array: None, the empty       *)
(* string, or a numeric zero when the array has object dtype; the other    *)
(* columns are kept, header included, in their order, and no row is added  *)
(* or removed.                                                             *)
(***************************************************************************)
C1_DropsExactlyFalsyColumns ==
    CalledNp =>
        KeepsColumns(ListRead, result.array,
            {j \in 1..Width(ListRead) :
                \E i \in 2..Len(ListRead) : ~FalsyCell(ListRead, ListRead[i][j])})

\* as_np_array dropped a column of zeros and missing values and kept another
C1_Witness ==
    /\ CalledNp
    /\ HasDataRows(ListRead)
    /\ \E j \in 1..Width(ListRead) :
          /\ \A i \in 2..Len(ListRead) : FalsyCell(ListRead, ListRead[i][j])
          /\ \E i \in 2..Len(ListRead) : ListRead[i][j] = Numb("0.0")
    /\ Width(result.array.rows) >= 2
    /\ Width(result.array.rows) < Width(ListRead)

(***************************************************************************)
(* C4: in IndicatorDataset._country_table, for a dataset with at least one *)
(* data row, the seven leading columns taken as metas are Country and the  *)
(* six country-metadata columns, each under the meta variable of its name, *)
(* and no indicator column is a meta and no metadata column an attribute.  *)
(***************************************************************************)
C4_MetasAreTheMetadataColumns ==
    (CalledTable("Indicator", "country") /\ HasDataRows(ListRead)) =>
        /\ Names(Cut(work.rows[1], 1, MetaWidth)) = MetaNames
        /\ result.kind = "table" =>
              /\ [j \in 1..Len(result.metaVars) |-> result.metaVars[j].name]
                     = MetaNames
              /\ \A a \in 1..Len(result.attrNames) :
                    \A m \in 1..Len(MetaNames) :
                        result.attrNames[a] # MetaNames[m]

(***************************************************************************)
(* C5: in IndicatorDataset._country_table each of the fields Region, Admin *)
(* region, Income level and Lending type is dictionary-encoded: a row's    *)
(* value is replaced by an index with values[index] = the row's original   *)
(* value, two rows share an index iff they shared the value, and the       *)
(* indexes used are exactly 0..k-1 for the k distinct values.              *)
(***************************************************************************)
IndexOf(c) == DigitVal(c.v)

\* the meta variable at position p encodes column p of the list read
FieldEncoded(list, p) ==
    LET var == result.metaVars[p]
        n == Len(list) - 1
    IN  /\ Len(result.metas) = n
        /\ \A i \in 1..n :
              /\ result.metas[i][p].k \in {"int", "str"}
              /\ IsDigit(result.metas[i][p].v)
              /\ IndexOf(result.metas[i][p]) < Len(var.values)
              /\ SameValue(var.values[IndexOf(result.metas[i][p]) + 1],
                           list[i + 1][p])
        /\ \A i \in 1..n : \A k \in 1..n :
              (result.metas[i][p] = result.metas[k][p])
                  <=> (list[i + 1][p] = list[k + 1][p])
        /\ {IndexOf(result.metas[i][p]) : i \in 1..n}
               = 0..(Cardinality({list[i + 1][p] : i \in 1..n}) - 1)

C5_FieldsDictionaryEncoded ==
    (/\ CalledTable("Indicator", "country")
     /\ HasDataRows(ListRead)
     /\ flexAny = "works") =>
        /\ result.kind = "table"
        /\ \A e \in 1..Len(EncodedCols) : FieldEncoded(ListRead, EncodedCols[e])

\* what holds: when no metadata column was dropped, the four fields are encoded
C5_EncodedWhenNoColumnDropped ==
    (/\ CalledTable("Indicator", "country")
     /\ HasDataRows(ListRead)
     /\ flexAny = "works"
     /\ Names(Cut(work.rows[1], 1, MetaWidth)) = MetaNames) =>
        /\ result.kind = "table"
        /\ \A e \in 1..Len(EncodedCols) : FieldEncoded(ListRead, EncodedCols[e])

C8_NoneExactlyWithoutDataRows ==
    (result.op = "as_orange_table" /\ flexAny = "works"
        /\ asked.given = {}) =>
        /\ ~HasDataRows(ListRead) => result.kind = "None"
        /\ HasDataRows(ListRead) => result.kind = "table"

\* what holds: a header-only list gives None
C8_HeaderOnlyGivesNone ==
    (result.op = "as_orange_table" /\ flexAny = "works"
        /\ asked.given = {} /\ ~HasDataRows(ListRead)) => result.kind = "None"

(***************************************************************************)
(* C9: ClimateDataset._country_table replaces the first-column code of     *)
(* every data row by alpha3_map[code] when the code is a key of the map    *)
(* and leaves it unchanged when it is not; no other cell of the row is     *)
(* altered and the rows keep their order.                                  *)
(***************************************************************************)
C9_OnlyAlpha3Normalized ==
    (CalledTable("Climate", "country") /\ result.kind = "table") =>
        /\ Len(result.metas) = Len(ListRead) - 1
        /\ Len(result.X) = Len(ListRead) - 1
        /\ \A i \in 1..(Len(ListRead) - 1) :
              LET code == ListRead[i + 1][1]
                  row == as_np_array(ListRead).rows[i + 1]
              IN  /\ Len(result.metas[i]) = 1
                  /\ code.v \in Alpha3Keys =>
                        result.metas[i][1] = Str(Alpha3Map[code.v])
                  /\ code.v \notin Alpha3Keys => result.metas[i][1] = code
                  /\ result.X[i] = Cut(row, 2, Len(row))
                  /\ work.rows[i + 1] = result.metas[i] \o result.X[i]

\* a climate country table with a code the map holds and one it does not
C9_Witness ==
    /\ CalledTable("Climate", "country")
    /\ result.kind = "table"
    /\ \E i \in 2..Len(ListRead) : ListRead[i][1].v \in Alpha3Keys
    /\ \E i \in 2..Len(ListRead) : ListRead[i][1].v \notin Alpha3Keys
    /\ Len(result.attrNames) >= 1

(***************************************************************************)
(* C10: every table built has one row per data row of the filtered array,  *)
(* in the same order, the meta values and the attribute values of row i    *)
(* both taken from source row i; in a time-series table the Date meta of a *)
(* row is the timestamp of that row's date, or None when the date cell is  *)
(* empty, and the country-code lookup of ClimateDataset does not change it. *)
(***************************************************************************)
\* a table cell holding the number, or nan for a missing one, of a source cell
NumberOf(x, c) ==
    IF EmptyCell(c) THEN x.v = "nan" ELSE x.v = c.v

SeriesRowAligned(i, row) ==
    /\ result.metas[i] =
           <<IF ListRead[i + 1][1].k = "date"
             THEN [k |-> "ts", v |-> ListRead[i + 1][1].v]
             ELSE NoneCell>>
    /\ EmptyCell(ListRead[i + 1][1]) <=> result.metas[i] = <<NoneCell>>
    /\ result.X[i] = Cut(row, 2, Len(row))

ClimateCountryRowAligned(i, row) ==
    /\ result.metas[i] = <<Alpha3Get(row[1])>>
    /\ result.X[i] = Cut(row, 2, Len(row))

IndicatorCountryRowAligned(i, row) ==
    /\ Len(result.metas[i]) = MetaWidth
    /\ Len(result.X[i]) = Len(row) - MetaWidth
    /\ result.metas[i][1] = row[1]
    /\ \A e \in 1..Len(EncodedCols) :
          LET p == EncodedCols[e]
          IN  result.metaVars[p].values[IndexOf(result.metas[i][p]) + 1] = row[p]
    /\ \A p \in FloatCols : NumberOf(result.metas[i][p], row[p])
    /\ \A j \in 1..(Len(row) - MetaWidth) :
          NumberOf(result.X[i][j], row[j + MetaWidth])

C10_RowsAligned ==
    (result.op = "as_orange_table" /\ result.kind = "table") =>
        LET rows == as_np_array(ListRead).rows
        IN  /\ Len(rows) = Len(ListRead)
            /\ Len(result.X) = Len(rows) - 1
            /\ Len(result.metas) = Len(rows) - 1
            /\ \A i \in 1..(Len(rows) - 1) :
                  IF result.mode = "series" THEN SeriesRowAligned(i, rows[i + 1])
                  ELSE IF cls = "Climate"
                  THEN ClimateCountryRowAligned(i, rows[i + 1])
                  ELSE IndicatorCountryRowAligned(i, rows[i + 1])

\* a climate time-series table of two different rows, one without a date
C10_Witness ==
    /\ CalledTable("Climate", "series")
    /\ result.kind = "table"
    /\ Len(result.metas) = 2
    /\ result.metas[1] # result.metas[2]
    /\ result.X[1] # result.X[2]
    /\ \E i \in 1..2 : result.metas[i] = <<NoneCell>>

(***************************************************************************)
(* C11: as_orange_table dispatches on time_series only: with                *)
(* time_series=True it returns exactly what _time_series_table returns and  *)
(* with time_series=False exactly what _country_table returns, for both     *)
(* dataset classes; ClimateDataset hands its extra keyword arguments        *)
(* unchanged to the builder chosen, and every as_np_array call of its       *)
(* _time_series_table carries columns=["country", "type"] and               *)
(* use_dates=True, which no keyword argument of the caller replaces (a      *)
(* caller naming one of the two gets a TypeError and no call is made).      *)
(***************************************************************************)
\* what calling the builder itself with the same keyword arguments gives
DirectCall(series) ==
    IF series THEN _time_series_table(cls, asked.given, raw, flexAny)
    ELSE _country_table(cls, asked.given, raw, flexAny, noneFirst)

C11_DispatchOnTimeSeries ==
    result.op = "as_orange_table" =>
        LET series == result.mode = "series"
        IN  \A direct \in {DirectCall(series)} :
            /\ asked.builder =
                   IF series THEN "_time_series_table" ELSE "_country_table"
            /\ asked.kwargs = asked.given
            /\ result = Call("as_orange_table", series, direct.out.ret)
            /\ work = direct.out.data
            /\ asked.request = direct.request
            /\ (cls = "Climate" /\ ~series) =>
                   asked.request = Request(asked.given)
            /\ (cls = "Climate" /\ series) =>
                   /\ asked.request.kind \in {"as_np_array", "TypeError"}
                   /\ asked.request.kind = "as_np_array" =>
                          /\ asked.request.args = SeriesKeywords \cup asked.given
                          /\ \A p \in asked.request.args :
                                 p[1] \in KeywordNames(SeriesKeywords) =>
                                     p \in SeriesKeywords
                   /\ asked.request.kind = "TypeError" <=>
                          \E p \in asked.given :
                              p[1] \in KeywordNames(SeriesKeywords)
                   /\ asked.request.kind = "TypeError" =>
                          (result.kind = "raise" /\ result.exc = "TypeError")

\* a climate time-series table was built by as_orange_table(time_series=True)
\* through _time_series_table, which asked for the two columns with dates
C11_Witness ==
    /\ CalledTable("Climate", "series")
    /\ result.kind = "table"
    /\ asked.builder = "_time_series_table"
    /\ asked.request = Request(SeriesKeywords)
    /\ Len(result.metas) >= 1

====
